---- MODULE Spec2Model ----
(***************************************************************************)
(* A model of the reactive pipes of src/src/Pipe.ts.  The file holds two   *)
(* iterations of the library: the PipeBase iteration (State, MappedPipe,   *)
(* CombinedPipe; also src/unnamed/part_000) and the Pipe iteration (State, *)
(* PipeProjection, PipeCombiner, PipeArrayMap, PipeArrayFilter,            *)
(* PipeArrayGroup, PipeMonitor).  Objects live in a heap; every public     *)
(* call is one atomic step that runs the whole synchronous propagation.    *)
(***************************************************************************)
EXTENDS Integers, Sequences, FiniteSets, TLC

VARIABLES heap, log, threw, last

vars == <<heap, log, threw, last>>

(***************************************************************************)
(* Bounds of the model.                                                    *)
(***************************************************************************)
MaxPipes == 3
MaxTokens == 2
MaxVal == 1
NumFns == 1
NumItems == 1
MaxDerived == 1
MaxArrayPipes == 1
MaxListLen == 2
NumTargets == 2
NumMembers == 2
MaxSelectors == 2

(***************************************************************************)
(* JavaScript values.  Every value is a record of one shape, so that any   *)
(* two values can be compared: a number, a boolean, a list (of items or of *)
(* pipes, both object references), a list of groups, or undefined.         *)
(***************************************************************************)
Undef == [t |-> "undef", n |-> 0, l |-> <<>>]
IntV(n) == [t |-> "int", n |-> n, l |-> <<>>]
BoolV(b) == [t |-> "bool", n |-> IF b THEN 1 ELSE 0, l |-> <<>>]
ListV(l) == [t |-> "list", n |-> 0, l |-> l]
\* a value that is (or holds) the pipe at heap address p
RefV(p) == [t |-> "ref", n |-> p, l |-> <<>>]

NoToken == 0 - 1

(***************************************************************************)
(* Listeners.  A listener table is a JavaScript array: a slot holds a      *)
(* listener or, after delete, a hole.  The closures the library installs   *)
(* are  _ => this.notify()  ("notify") and the resubscribing closure of    *)
(* PipeArrayFilter / PipeArrayGroup ("resub"); "ext" is a function of the  *)
(* application, which when called reads the value of pipe arg (of its      *)
(* source when arg = 0) or does nothing (act "none").                      *)
(***************************************************************************)
Hole == [type |-> "hole", ref |-> 0, act |-> "none", arg |-> 0]
NotifyClosure(p) == [type |-> "notify", ref |-> p, act |-> "none", arg |-> 0]
ResubClosure(p) == [type |-> "resub", ref |-> p, act |-> "none", arg |-> 0]
Ext(k, act, arg) == [type |-> "ext", ref |-> k, act |-> act, arg |-> arg]

(***************************************************************************)
(* Objects.  One record shape for every class; a class uses its fields.    *)
(*   index, listeners, lundef : _index/_listenerIndex, _listeners, and     *)
(*                              whether _listeners was set to undefined    *)
(*   value, oldValue          : State                                      *)
(*   cached, cache            : the caching pipes                          *)
(*   parents, pundef          : _parent / _dependencies / _pipes           *)
(*   fn, sels                 : _projection / _predicate / _expression,    *)
(*                              _pipeExpressions                           *)
(*   tokens                   : _tokens / _dependencyTokens                *)
(*   unsubParent, unsubChildren, uundef : the bound unsubscribe calls      *)
(***************************************************************************)
NewObj(base, kind) ==
    [base |-> base, kind |-> kind, index |-> 0, listeners |-> <<>>,
     lundef |-> FALSE, value |-> Undef, oldValue |-> Undef,
     cached |-> FALSE, cache |-> Undef, parents |-> <<>>, pundef |-> FALSE,
     fn |-> "none", sels |-> <<>>, tokens |-> <<>>, unsubParent |-> <<>>,
     unsubChildren |-> <<>>, uundef |-> FALSE]

(***************************************************************************)
(* The machine threaded through a call: the heap, the calls of application *)
(* listeners made so far, whether an exception is propagating, and the     *)
(* value / token / new object / list of bound unsubscribe calls the last   *)
(* call returned.                                                          *)
(***************************************************************************)
Machine(h) ==
    [h |-> h, log |-> <<>>, err |-> FALSE, ret |-> Undef, tok |-> NoToken,
     obj |-> 0, subs |-> <<>>]
Throw(m) == [m EXCEPT !.err = TRUE]
Lookup(f, t) == IF t \in DOMAIN f THEN f[t] ELSE NoToken

RECURSIVE notify(_, _), value(_, _), subscribe(_, _, _), unsubscribe(_, _, _)
RECURSIVE dispose(_, _), Call(_, _, _, _)
RECURSIVE State_set(_, _, _)
RECURSIVE CallSnapshot(_, _, _, _), CallLive(_, _, _)
RECURSIVE UnsubscribeEach(_, _, _), SubscribeDeps(_, _, _, _)
RECURSIVE UnsubscribeDeps(_, _, _, _), CallEach(_, _, _)
RECURSIVE SubscribeAll(_, _, _, _, _), PipeArrayFilter_listener(_, _)
RECURSIVE RemoveSubs(_, _, _, _), FilterItems(_, _, _, _, _)

(***************************************************************************)
(* Projections (_projection): pure functions of a value.                   *)
(***************************************************************************)
Apply(fn, v) ==
    CASE fn = "inc" -> IntV(v.n + 1)
      [] fn = "dbl" -> IntV(2 * v.n)
      [] fn = "len" -> IntV(Len(v.l))
      [] OTHER -> v

(***************************************************************************)
(* A call of one listener with its source; calling a hole (undefined) is a *)
(* TypeError.  A call of an application listener is recorded with the slot *)
(* (token) it was called from and the value it read.                       *)
(***************************************************************************)
Event(lst, src, tok, read, val) ==
    [fn |-> lst.ref, src |-> src, tok |-> tok, read |-> read, val |-> val]

Call(m, lst, src, tok) ==
    CASE lst.type = "notify" -> notify(m, lst.ref)
      [] lst.type = "resub" -> PipeArrayFilter_listener(m, lst.ref)
      [] lst.type = "ext" /\ lst.act = "read" ->
            LET target == IF lst.arg = 0 THEN src ELSE lst.arg
                r == value(m, target)
            IN  IF r.err THEN r
                ELSE [r EXCEPT !.log = Append(r.log, Event(lst, src, tok, target, r.ret))]
      [] lst.type = "ext" /\ lst.act = "unsub" ->
            unsubscribe([m EXCEPT !.log = Append(m.log, Event(lst, src, tok, 0, Undef))],
                        src, lst.arg)
      [] lst.type = "ext" /\ lst.act = "sub" ->
            subscribe([m EXCEPT !.log = Append(m.log, Event(lst, src, tok, 0, Undef))],
                      src, Ext(lst.arg, "read", 0))
      [] lst.type = "ext" /\ lst.act = "set" /\ m.h[src].kind = "State" ->
            State_set([m EXCEPT !.log = Append(m.log, Event(lst, src, tok, 0, Undef))],
                      src, IntV(lst.arg))
      [] lst.type = "ext" ->
            [m EXCEPT !.log = Append(m.log, Event(lst, src, tok, 0, Undef))]
      [] OTHER -> Throw(m)

(***************************************************************************)
(* PipeBase                                                                *)
(***************************************************************************)
\* Object.values(array): the listeners present, in index order, as they are
\* when the call is made
ObjectValues(ls) ==
    SelectSeq([i \in DOMAIN ls |-> [tok |-> i - 1, lst |-> ls[i]]],
              LAMBDA x : x.lst.type # "hole")

CallSnapshot(m, snap, i, p) ==
    IF m.err \/ i > Len(snap) THEN m
    ELSE CallSnapshot(Call(m, snap[i].lst, p, snap[i].tok), snap, i + 1, p)

\* for (const listener of Object.values(this._listeners)) listener(this)
PipeBase_notify(m, p) ==
    IF m.h[p].lundef THEN Throw(m)
    ELSE CallSnapshot(m, ObjectValues(m.h[p].listeners), 1, p)

\* a subscribe that hands out again the lowest token that was unsubscribed
PipeBase_subscribe_reusesToken(m, p, lst) ==
    LET free == {i \in DOMAIN m.h[p].listeners : m.h[p].listeners[i] = Hole}
        slot == CHOOSE i \in free : \A j \in free : i <= j
    IN  IF m.h[p].lundef THEN Throw(m)
        ELSE IF free # {}
             THEN [m EXCEPT !.h[p].listeners[slot] = lst, !.tok = slot - 1]
             ELSE [m EXCEPT !.h[p].index = m.h[p].index + 1,
                            !.h[p].listeners = Append(m.h[p].listeners, lst),
                            !.tok = m.h[p].index]

\* token = this._index++; this._listeners[token] = listener
PipeBase_subscribe(m, p, lst) ==
    LET token == m.h[p].index
        m1 == [m EXCEPT !.h[p].index = token + 1]
    IN  IF m.h[p].lundef THEN Throw(m1)
        ELSE [m1 EXCEPT !.h[p].listeners = Append(m.h[p].listeners, lst),
                        !.tok = token]

\* delete this._listeners[token]
PipeBase_unsubscribe(m, p, token) ==
    IF m.h[p].lundef THEN Throw(m)
    ELSE IF token + 1 \in DOMAIN m.h[p].listeners
         THEN [m EXCEPT !.h[p].listeners[token + 1] = Hole]
         ELSE m

UnsubscribeEach(m, p, i) ==
    IF m.err \/ i >= m.h[p].index THEN m
    ELSE UnsubscribeEach(unsubscribe(m, p, i), p, i + 1)

\* for (i < this._index) this.unsubscribe(i); this._listeners = undefined
PipeBase_dispose(m, p) ==
    LET r == UnsubscribeEach(m, p, 0)
    IN  IF r.err THEN r ELSE [r EXCEPT !.h[p].lundef = TRUE]

(***************************************************************************)
(* State (both iterations)                                                 *)
(***************************************************************************)
State_new(m, base, v) ==
    [m EXCEPT !.h = Append(m.h, [NewObj(base, "State") EXCEPT
                                    !.value = v, !.oldValue = v]),
              !.obj = Len(m.h) + 1]

State_value(m, p) == [m EXCEPT !.ret = m.h[p].value]

\* a setter that forgets the assignment of line 62 / 296
State_set_keepsOldValue(m, p, v) ==
    IF m.h[p].value # v
    THEN notify([m EXCEPT !.h[p].value = v], p)
    ELSE m

\* a setter that does not notify when it is called from a listener
State_set_dropsNested(m, p, v) ==
    IF m.h[p].value # v
    THEN IF m.log # <<>>
         THEN [m EXCEPT !.h[p].oldValue = m.h[p].value, !.h[p].value = v]
         ELSE notify([m EXCEPT !.h[p].oldValue = m.h[p].value, !.h[p].value = v], p)
    ELSE m

State_set(m, p, v) ==
    IF m.h[p].value # v
    THEN notify([m EXCEPT !.h[p].oldValue = m.h[p].value, !.h[p].value = v], p)
    ELSE m

(***************************************************************************)
(* MappedPipe                                                              *)
(***************************************************************************)
MappedPipe_new(m, parent, fn) ==
    [m EXCEPT !.h = Append(m.h, [NewObj("PipeBase", "MappedPipe") EXCEPT
                                    !.parents = <<parent>>, !.fn = fn]),
              !.obj = Len(m.h) + 1]

MappedPipe_value(m, p) ==
    IF m.h[p].cached THEN [m EXCEPT !.ret = m.h[p].cache]
    ELSE LET r == value(m, m.h[p].parents[1])
             c == Apply(m.h[p].fn, r.ret)
         IN  IF r.err THEN r
             ELSE [r EXCEPT !.h[p].cache = c, !.h[p].cached = TRUE, !.ret = c]

MappedPipe_notify(m, p) ==
    PipeBase_notify([m EXCEPT !.h[p].cached = FALSE], p)

\* a subscribe that shares one parent subscription among all listeners
MappedPipe_subscribe_sharesParent(m, p, lst) ==
    LET r1 == PipeBase_subscribe(m, p, lst)
        r2 == IF r1.tok = 0
              THEN subscribe(r1, m.h[p].parents[1], NotifyClosure(p))
              ELSE [r1 EXCEPT !.tok = m.h[p].tokens[0]]
    IN  IF r1.err THEN r1
        ELSE IF r2.err THEN r2
        ELSE [r2 EXCEPT !.h[p].tokens = (r1.tok :> r2.tok) @@ r1.h[p].tokens,
                        !.tok = r1.tok]

MappedPipe_subscribe(m, p, lst) ==
    LET r1 == PipeBase_subscribe(m, p, lst)
        r2 == subscribe(r1, m.h[p].parents[1], NotifyClosure(p))
    IN  IF r1.err THEN r1
        ELSE IF r2.err THEN r2
        ELSE [r2 EXCEPT !.h[p].tokens = (r1.tok :> r2.tok) @@ r1.h[p].tokens,
                        !.tok = r1.tok]

\* an unsubscribe that leaves the subscription on the parent in place
MappedPipe_unsubscribe_keepsParent(m, p, token) ==
    PipeBase_unsubscribe(m, p, token)

MappedPipe_unsubscribe(m, p, token) ==
    LET parentToken == Lookup(m.h[p].tokens, token)
        r == unsubscribe(m, m.h[p].parents[1], parentToken)
    IN  IF r.err THEN r ELSE PipeBase_unsubscribe(r, p, token)

(***************************************************************************)
(* CombinedPipe                                                            *)
(***************************************************************************)
CombinedPipe_new(m, deps) ==
    [m EXCEPT !.h = Append(m.h, [NewObj("PipeBase", "CombinedPipe") EXCEPT
                                    !.parents = deps]),
              !.obj = Len(m.h) + 1]

CombinedPipe_value(m, p) ==
    IF m.h[p].cached THEN [m EXCEPT !.ret = m.h[p].cache]
    ELSE [m EXCEPT !.h[p].cache = ListV(m.h[p].parents), !.h[p].cached = TRUE,
                   !.ret = ListV(m.h[p].parents)]

CombinedPipe_notify(m, p) ==
    PipeBase_notify([m EXCEPT !.h[p].cached = FALSE], p)

\* the loop of CombinedPipe.subscribe: depTokens[i] = dep.subscribe(...)
SubscribeDeps(m, p, i, depTokens) ==
    IF m.err THEN m
    ELSE IF i > Len(m.h[p].parents) THEN [m EXCEPT !.ret = ListV(depTokens)]
    ELSE LET r == subscribe(m, m.h[p].parents[i], NotifyClosure(p))
         IN  SubscribeDeps(r, p, i + 1, Append(depTokens, r.tok))

CombinedPipe_subscribe(m, p, lst) ==
    LET r1 == PipeBase_subscribe(m, p, lst)
        r2 == SubscribeDeps(r1, p, 1, <<>>)
    IN  IF r1.err THEN r1
        ELSE IF r2.err THEN r2
        ELSE [r2 EXCEPT !.h[p].tokens = (r1.tok :> r2.ret.l) @@ r1.h[p].tokens,
                        !.tok = r1.tok, !.ret = Undef]

\* const depToken = depTokens[token]: the array is indexed by the listener's
\* token, not by the loop counter i
DepTokenAt(depTokens, token, i) ==
    IF token + 1 \in DOMAIN depTokens THEN depTokens[token + 1] ELSE NoToken

\* the loop of CombinedPipe.unsubscribe; depTokens is undefined for a token
\* subscribe never returned, and indexing undefined throws
UnsubscribeDeps(m, p, token, i) ==
    IF m.err \/ i > Len(m.h[p].parents) THEN m
    ELSE IF token \notin DOMAIN m.h[p].tokens THEN Throw(m)
    ELSE UnsubscribeDeps(
            unsubscribe(m, m.h[p].parents[i],
                        DepTokenAt(m.h[p].tokens[token], token, i - 1)),
            p, token, i + 1)

CombinedPipe_unsubscribe(m, p, token) ==
    LET r == UnsubscribeDeps(m, p, token, 1)
    IN  IF r.err THEN r ELSE PipeBase_unsubscribe(r, p, token)

(***************************************************************************)
(* Pipe (the base class of the second iteration)                           *)
(***************************************************************************)
\* for (const listener of this._listeners) listener(this): the array iterator
\* reads the length and the slot at every step, and a hole yields undefined
CallLive(m, p, i) ==
    IF m.err \/ i > Len(m.h[p].listeners) THEN m
    ELSE CallLive(Call(m, m.h[p].listeners[i], p, i - 1), p, i + 1)

Pipe_notify(m, p) ==
    IF m.h[p].lundef THEN Throw(m) ELSE CallLive(m, p, 1)

\* this._listeners.includes(listener): the library's closures are fresh
\* objects, only a function of the application can be there already
Includes(ls, lst) ==
    lst.type = "ext" /\ \E i \in DOMAIN ls : ls[i] = lst

\* a subscribe without the includes check
Pipe_subscribe_acceptsRegistered(m, p, lst) ==
    IF m.h[p].lundef THEN Throw(m)
    ELSE [m EXCEPT !.h[p].index = m.h[p].index + 1,
                   !.h[p].listeners = Append(m.h[p].listeners, lst),
                   !.tok = m.h[p].index]

Pipe_subscribe(m, p, lst) ==
    IF m.h[p].lundef \/ Includes(m.h[p].listeners, lst) THEN Throw(m)
    ELSE [m EXCEPT !.h[p].index = m.h[p].index + 1,
                   !.h[p].listeners = Append(m.h[p].listeners, lst),
                   !.tok = m.h[p].index]

Pipe_unsubscribe(m, p, listenerToken) ==
    IF m.h[p].lundef THEN Throw(m)
    ELSE IF listenerToken + 1 \in DOMAIN m.h[p].listeners
         THEN [m EXCEPT !.h[p].listeners[listenerToken + 1] = Hole]
         ELSE m

Pipe_dispose(m, p) ==
    LET r == UnsubscribeEach(m, p, 0)
    IN  IF r.err THEN r ELSE [r EXCEPT !.h[p].lundef = TRUE]

\* pipe.unsubscribe.bind(pipe, token), kept with the item it was made for
Bound(pipe, token, item) == [pipe |-> pipe, tok |-> token, item |-> item]
CallBound(m, b) == unsubscribe(m, b.pipe, b.tok)

\* bounds.forEach(x => x())
CallEach(m, bs, i) ==
    IF m.err \/ i > Len(bs) THEN m
    ELSE CallEach(CallBound(m, bs[i]), bs, i + 1)

\* targets.map(pipe => { token = pipe.subscribe(_ => this.notify()); return bound })
SubscribeAll(m, p, items, targets, i) ==
    IF m.err \/ i > Len(targets) THEN m
    ELSE IF targets[i] \notin 1 .. Len(m.h) THEN Throw(m)
    ELSE LET r == subscribe(m, targets[i], NotifyClosure(p))
         IN  SubscribeAll([r EXCEPT !.subs = Append(m.subs, Bound(targets[i], r.tok, items[i]))],
                          p, items, targets, i + 1)

(***************************************************************************)
(* PipeProjection                                                          *)
(***************************************************************************)
PipeProjection_new(m, parent, fn) ==
    LET q == Len(m.h) + 1
        m1 == [m EXCEPT !.h = Append(m.h, [NewObj("Pipe", "PipeProjection") EXCEPT
                                              !.parents = <<parent>>, !.fn = fn])]
        r == subscribe(m1, parent, NotifyClosure(q))
    IN  IF r.err THEN r
        ELSE [r EXCEPT !.h[q].unsubParent = <<Bound(parent, r.tok, 0)>>, !.obj = q]

PipeProjection_value(m, p) ==
    IF m.h[p].cached THEN [m EXCEPT !.ret = m.h[p].cache]
    ELSE IF m.h[p].pundef THEN Throw(m)
    ELSE LET r == value(m, m.h[p].parents[1])
             c == Apply(m.h[p].fn, r.ret)
         IN  IF r.err THEN r
             ELSE [r EXCEPT !.h[p].cache = c, !.h[p].cached = TRUE, !.ret = c]

\* a notify that leaves the cache in place
PipeProjection_notify_keepsCache(m, p) ==
    Pipe_notify(m, p)

PipeProjection_notify(m, p) ==
    Pipe_notify([m EXCEPT !.h[p].cached = FALSE], p)

\* a dispose that forgets this._unsubscribeParent()
PipeProjection_dispose_keepsParent(m, p) ==
    LET r1 == Pipe_dispose(m, p)
    IN  IF r1.err THEN r1
        ELSE IF m.h[p].uundef THEN Throw(r1)
        ELSE [r1 EXCEPT !.h[p].uundef = TRUE, !.h[p].cache = Undef,
                        !.h[p].pundef = TRUE]

PipeProjection_dispose(m, p) ==
    LET r1 == Pipe_dispose(m, p)
        r2 == CallEach(r1, m.h[p].unsubParent, 1)
    IN  IF r1.err THEN r1
        ELSE IF m.h[p].uundef THEN Throw(r1)
        ELSE IF r2.err THEN r2
        ELSE [r2 EXCEPT !.h[p].uundef = TRUE, !.h[p].cache = Undef,
                        !.h[p].pundef = TRUE]

(***************************************************************************)
(* PipeCombiner                                                            *)
(***************************************************************************)
\* a constructor that subscribes to its first pipe only
PipeCombiner_new_firstOnly(m, pipes) ==
    LET q == Len(m.h) + 1
        m1 == [m EXCEPT !.h = Append(m.h, [NewObj("Pipe", "PipeCombiner") EXCEPT
                                              !.parents = pipes]),
                        !.subs = <<>>]
        r == SubscribeAll(m1, q, <<0>>, <<pipes[1]>>, 1)
    IN  IF r.err THEN r
        ELSE [r EXCEPT !.h[q].unsubChildren = r.subs, !.obj = q]

PipeCombiner_new(m, pipes) ==
    LET q == Len(m.h) + 1
        m1 == [m EXCEPT !.h = Append(m.h, [NewObj("Pipe", "PipeCombiner") EXCEPT
                                              !.parents = pipes]),
                        !.subs = <<>>]
        r == SubscribeAll(m1, q, [i \in DOMAIN pipes |-> 0], pipes, 1)
    IN  IF r.err THEN r
        ELSE [r EXCEPT !.h[q].unsubChildren = r.subs, !.obj = q]

PipeCombiner_value(m, p) == [m EXCEPT !.ret = ListV(m.h[p].parents)]

PipeCombiner_dispose(m, p) ==
    LET r1 == Pipe_dispose(m, p)
        r2 == CallEach(r1, m.h[p].unsubChildren, 1)
    IN  IF r1.err THEN r1
        ELSE IF m.h[p].uundef THEN Throw(r1)
        ELSE IF r2.err THEN r2
        ELSE [r2 EXCEPT !.h[p].uundef = TRUE]

(***************************************************************************)
(* PipeMonitor.  A selector (value: T) => Pipe<any> is either constant     *)
(* (_ => q) or follows the value, which then is a reference to the pipe    *)
(* (x => x).                                                               *)
(***************************************************************************)
Select(sel, v) == IF sel = 0 THEN v.n ELSE sel

\* a constructor that subscribes to the parent only
PipeMonitor_new_parentOnly(m, parent, monitoredPipes) ==
    LET q == Len(m.h) + 1
        m1 == [m EXCEPT !.h = Append(m.h, [NewObj("Pipe", "PipeMonitor") EXCEPT
                                              !.parents = <<parent>>,
                                              !.sels = monitoredPipes]),
                        !.subs = <<>>]
        r1 == subscribe(m1, parent, NotifyClosure(q))
    IN  IF r1.err THEN r1
        ELSE [r1 EXCEPT !.h[q].unsubParent = <<Bound(parent, r1.tok, 0)>>,
                        !.h[q].unsubChildren =
                            [i \in DOMAIN monitoredPipes |->
                                Bound(Select(monitoredPipes[i], r1.h[parent].value),
                                      NoToken, 0)],
                        !.obj = q]

PipeMonitor_new(m, parent, monitoredPipes) ==
    LET q == Len(m.h) + 1
        m1 == [m EXCEPT !.h = Append(m.h, [NewObj("Pipe", "PipeMonitor") EXCEPT
                                              !.parents = <<parent>>,
                                              !.sels = monitoredPipes]),
                        !.subs = <<>>]
        r1 == subscribe(m1, parent, NotifyClosure(q))
        r2 == value(r1, parent)
        r3 == SubscribeAll(r2, q, [i \in DOMAIN monitoredPipes |-> 0],
                           [i \in DOMAIN monitoredPipes |-> Select(monitoredPipes[i], r2.ret)], 1)
    IN  IF r1.err THEN r1
        ELSE IF r2.err THEN r2
        ELSE IF r3.err THEN r3
        ELSE [r3 EXCEPT !.h[q].unsubParent = <<Bound(parent, r1.tok, 0)>>,
                        !.h[q].unsubChildren = r3.subs, !.obj = q]

PipeMonitor_value(m, p) == value(m, m.h[p].parents[1])

PipeMonitor_dispose(m, p) ==
    LET r1 == Pipe_dispose(m, p)
        r2 == CallEach(r1, m.h[p].unsubParent, 1)
        r3 == CallEach(r2, m.h[p].unsubChildren, 1)
    IN  IF r1.err THEN r1
        ELSE IF m.h[p].uundef THEN Throw(r1)
        ELSE IF r2.err THEN r2
        ELSE [r3 EXCEPT !.h[p].uundef = TRUE]

(***************************************************************************)
(* PipeArrayMap                                                            *)
(***************************************************************************)
\* the projection of one element
ApplyItem(fn, x) == IF fn = "plus10" THEN x + 10 ELSE x

PipeArrayMap_new(m, parent, fn) ==
    LET q == Len(m.h) + 1
        m1 == [m EXCEPT !.h = Append(m.h, [NewObj("Pipe", "PipeArrayMap") EXCEPT
                                              !.parents = <<parent>>, !.fn = fn])]
        r == subscribe(m1, parent, NotifyClosure(q))
    IN  IF r.err THEN r
        ELSE [r EXCEPT !.h[q].unsubParent = <<Bound(parent, r.tok, 0)>>, !.obj = q]

PipeArrayMap_value(m, p) ==
    IF m.h[p].cached THEN [m EXCEPT !.ret = m.h[p].cache]
    ELSE IF m.h[p].pundef THEN Throw(m)
    ELSE LET r == value(m, m.h[p].parents[1])
             c == ListV([i \in DOMAIN r.ret.l |-> ApplyItem(m.h[p].fn, r.ret.l[i])])
         IN  IF r.err THEN r
             ELSE IF r.ret.t # "list" THEN Throw(r)
             ELSE [r EXCEPT !.h[p].cache = c, !.h[p].cached = TRUE, !.ret = c]

PipeArrayMap_notify(m, p) ==
    Pipe_notify([m EXCEPT !.h[p].cached = FALSE], p)

PipeArrayMap_dispose(m, p) ==
    LET r1 == Pipe_dispose(m, p)
        r2 == CallEach(r1, m.h[p].unsubParent, 1)
    IN  IF r1.err THEN r1
        ELSE IF m.h[p].uundef THEN Throw(r1)
        ELSE IF r2.err THEN r2
        ELSE [r2 EXCEPT !.h[p].uundef = TRUE, !.h[p].cache = Undef,
                        !.h[p].pundef = TRUE]

(***************************************************************************)
(* PipeArrayFilter.  An item is an object holding one observable field;    *)
(* it is represented by the heap address of that State, and the predicate  *)
(* x => x.field returns it.                                                *)
(***************************************************************************)
ItemPipe(fn, item) == item

Truthy(v) == (v.t = "list") \/ (v.t \in {"bool", "int"} /\ v.n # 0)

ItemsOf(bs) == {bs[i].item : i \in DOMAIN bs}
Elems(l) == {l[i] : i \in DOMAIN l}

PipeArrayFilter_new(m, parent, predicate) ==
    LET q == Len(m.h) + 1
        m1 == [m EXCEPT !.h = Append(m.h, [NewObj("Pipe", "PipeArrayFilter") EXCEPT
                                              !.parents = <<parent>>, !.fn = predicate]),
                        !.subs = <<>>]
        r1 == subscribe(m1, parent, ResubClosure(q))
        r2 == value(r1, parent)
        r3 == SubscribeAll(r2, q, r2.ret.l,
                           [i \in DOMAIN r2.ret.l |-> ItemPipe(predicate, r2.ret.l[i])], 1)
    IN  IF r1.err THEN r1
        ELSE IF r2.err THEN r2
        ELSE IF r2.ret.t # "list" THEN Throw(r2)
        ELSE IF r3.err THEN r3
        ELSE [r3 EXCEPT !.h[q].unsubParent = <<Bound(parent, r1.tok, 0)>>,
                        !.h[q].unsubChildren = r3.subs, !.obj = q]

\* removedSubs.forEach(sub => { sub.unsubscribe(); splice(indexOf(sub), 1) })
RemoveSubs(m, p, items, i) ==
    IF m.err \/ i > Len(m.h[p].unsubChildren) THEN m
    ELSE IF m.h[p].unsubChildren[i].item \in Elems(items)
    THEN RemoveSubs(m, p, items, i + 1)
    ELSE LET r == CallBound(m, m.h[p].unsubChildren[i])
             cs == r.h[p].unsubChildren
         IN  IF r.err THEN r
             ELSE RemoveSubs([r EXCEPT !.h[p].unsubChildren =
                                SubSeq(cs, 1, i - 1) \o SubSeq(cs, i + 1, Len(cs))],
                             p, items, i)

\* the listener the constructor subscribes on the parent
PipeArrayFilter_listener(m, p) ==
    LET r0 == value(m, m.h[p].parents[1])
        r1 == RemoveSubs(r0, p, r0.ret.l, 1)
        addedItems == SelectSeq(r0.ret.l,
                        LAMBDA item : item \notin ItemsOf(r1.h[p].unsubChildren))
        r2 == SubscribeAll([r1 EXCEPT !.subs = <<>>], p, addedItems,
                [i \in DOMAIN addedItems |-> ItemPipe(m.h[p].fn, addedItems[i])], 1)
    IN  IF m.h[p].uundef \/ m.h[p].pundef THEN Throw(m)
        ELSE IF r0.err THEN r0
        ELSE IF r0.ret.t # "list" THEN Throw(r0)
        ELSE IF r1.err THEN r1
        ELSE IF r2.err THEN r2
        ELSE notify([r2 EXCEPT !.h[p].unsubChildren =
                        r1.h[p].unsubChildren \o r2.subs], p)

\* items.filter(x => this._predicate(x).value)
FilterItems(m, fn, items, i, acc) ==
    IF m.err THEN m
    ELSE IF i > Len(items) THEN [m EXCEPT !.ret = ListV(acc)]
    ELSE LET r == value(m, ItemPipe(fn, items[i]))
         IN  FilterItems(r, fn, items, i + 1,
                         IF ~r.err /\ Truthy(r.ret) THEN Append(acc, items[i]) ELSE acc)

PipeArrayFilter_value(m, p) ==
    IF m.h[p].cached THEN [m EXCEPT !.ret = m.h[p].cache]
    ELSE IF m.h[p].pundef THEN Throw(m)
    ELSE LET r0 == value(m, m.h[p].parents[1])
             r == FilterItems(r0, m.h[p].fn, r0.ret.l, 1, <<>>)
         IN  IF r0.err THEN r0
             ELSE IF r0.ret.t # "list" THEN Throw(r0)
             ELSE IF r.err THEN r
             ELSE [r EXCEPT !.h[p].cache = r.ret, !.h[p].cached = TRUE]

PipeArrayFilter_notify(m, p) ==
    Pipe_notify([m EXCEPT !.h[p].cached = FALSE], p)

\* a dispose that forgets this._unsubscribeChildren.forEach(x => x.unsubscribe())
PipeArrayFilter_dispose_keepsChildren(m, p) ==
    LET r1 == Pipe_dispose(m, p)
        r2 == CallEach(r1, m.h[p].unsubParent, 1)
    IN  IF r1.err THEN r1
        ELSE IF m.h[p].uundef THEN Throw(r1)
        ELSE IF r2.err THEN r2
        ELSE [r2 EXCEPT !.h[p].uundef = TRUE, !.h[p].cache = Undef,
                        !.h[p].pundef = TRUE]

PipeArrayFilter_dispose(m, p) ==
    LET r1 == Pipe_dispose(m, p)
        r2 == CallEach(r1, m.h[p].unsubParent, 1)
        r3 == CallEach(r2, m.h[p].unsubChildren, 1)
    IN  IF r1.err THEN r1
        ELSE IF m.h[p].uundef THEN Throw(r1)
        ELSE IF r2.err THEN r2
        ELSE IF r3.err THEN [r3 EXCEPT !.h[p].uundef = TRUE]
        ELSE [r3 EXCEPT !.h[p].uundef = TRUE, !.h[p].cache = Undef,
                        !.h[p].pundef = TRUE]

(***************************************************************************)
(* PipeArrayGroup.  Its constructor, notify and dispose are those of       *)
(* PipeArrayFilter with _expression for _predicate, and the listener it    *)
(* subscribes on the parent is the same resubscribing closure.  The value, *)
(* a list of [key, items] pairs, is held as the list of integers           *)
(*   key, number of items, items ...   for every pair in turn.             *)
(***************************************************************************)
GroupsV(l) == [t |-> "groups", n |-> 0, l |-> l]

PipeArrayGroup_new(m, parent, expression) ==
    LET q == Len(m.h) + 1
        m1 == [m EXCEPT !.h = Append(m.h, [NewObj("Pipe", "PipeArrayGroup") EXCEPT
                                              !.parents = <<parent>>, !.fn = expression]),
                        !.subs = <<>>]
        r1 == subscribe(m1, parent, ResubClosure(q))
        r2 == value(r1, parent)
        r3 == SubscribeAll(r2, q, r2.ret.l,
                           [i \in DOMAIN r2.ret.l |-> ItemPipe(expression, r2.ret.l[i])], 1)
    IN  IF r1.err THEN r1
        ELSE IF r2.err THEN r2
        ELSE IF r2.ret.t # "list" THEN Throw(r2)
        ELSE IF r3.err THEN r3
        ELSE [r3 EXCEPT !.h[q].unsubParent = <<Bound(parent, r1.tok, 0)>>,
                        !.h[q].unsubChildren = r3.subs, !.obj = q]

\* map.get(key) / map.set(key, [item]) / collection.push(item): a Map keeps
\* its keys in the order they were first set
MapPush(map, key, item) ==
    IF \E i \in DOMAIN map : map[i].key = key
    THEN [i \in DOMAIN map |->
            IF map[i].key = key
            THEN [map[i] EXCEPT !.items = Append(map[i].items, item)]
            ELSE map[i]]
    ELSE Append(map, [key |-> key, items |-> <<item>>])

RECURSIVE Entries(_)
Entries(map) ==
    IF map = <<>> THEN <<>>
    ELSE <<Head(map).key, Len(Head(map).items)>> \o Head(map).items
            \o Entries(Tail(map))

RECURSIVE groupBy(_, _, _, _, _)
groupBy(m, fn, array, i, map) ==
    IF m.err THEN m
    ELSE IF i > Len(array) THEN [m EXCEPT !.ret = GroupsV(Entries(map))]
    ELSE LET r == value(m, ItemPipe(fn, array[i]))
         IN  groupBy(r, fn, array, i + 1,
                     IF r.err THEN map ELSE MapPush(map, r.ret.n, array[i]))

PipeArrayGroup_value(m, p) ==
    IF m.h[p].cached THEN [m EXCEPT !.ret = m.h[p].cache]
    ELSE IF m.h[p].pundef THEN Throw(m)
    ELSE LET r0 == value(m, m.h[p].parents[1])
             r == groupBy(r0, m.h[p].fn, r0.ret.l, 1, <<>>)
         IN  IF r0.err THEN r0
             ELSE IF r0.ret.t # "list" THEN Throw(r0)
             ELSE IF r.err THEN r
             ELSE [r EXCEPT !.h[p].cache = r.ret, !.h[p].cached = TRUE]

PipeArrayGroup_notify(m, p) ==
    Pipe_notify([m EXCEPT !.h[p].cached = FALSE], p)

PipeArrayGroup_dispose(m, p) ==
    LET r1 == Pipe_dispose(m, p)
        r2 == CallEach(r1, m.h[p].unsubParent, 1)
        r3 == CallEach(r2, m.h[p].unsubChildren, 1)
    IN  IF r1.err THEN r1
        ELSE IF m.h[p].uundef THEN Throw(r1)
        ELSE IF r2.err THEN r2
        ELSE IF r3.err THEN [r3 EXCEPT !.h[p].uundef = TRUE]
        ELSE [r3 EXCEPT !.h[p].uundef = TRUE, !.h[p].cache = Undef,
                        !.h[p].pundef = TRUE]

\* Pipe.project / combineWith / monitor / map / filter / group / asArray
\* Array.isArray(this.value)
IsArray(v) == v.t \in {"list", "groups"}

Pipe_project(m, p, projection) == PipeProjection_new(m, p, projection)

Pipe_combineWith(m, p, rest) == PipeCombiner_new(m, <<p>> \o rest)

Pipe_monitor(m, p, monitoredPipes) == PipeMonitor_new(m, p, monitoredPipes)

Pipe_map(m, p, projection) ==
    LET r == value(m, p)
    IN  IF r.err THEN r
        ELSE IF ~IsArray(r.ret) THEN Throw(r)
        ELSE PipeArrayMap_new(r, p, projection)

\* a filter without the Array.isArray check
Pipe_filter_unchecked(m, p, predicate) ==
    LET r == value(m, p)
    IN  IF r.err THEN r ELSE PipeArrayFilter_new(r, p, predicate)

Pipe_filter(m, p, predicate) ==
    LET r == value(m, p)
    IN  IF r.err THEN r
        ELSE IF ~IsArray(r.ret) THEN Throw(r)
        ELSE PipeArrayFilter_new(r, p, predicate)

Pipe_group(m, p, expression) ==
    LET r == value(m, p)
    IN  IF r.err THEN r
        ELSE IF ~IsArray(r.ret) THEN Throw(r)
        ELSE PipeArrayGroup_new(r, p, expression)

\* asArray returns the pipe itself
Pipe_asArray(m, p) ==
    LET r == value(m, p)
    IN  IF r.err THEN r
        ELSE IF ~IsArray(r.ret) THEN Throw(r)
        ELSE [r EXCEPT !.obj = p]

(***************************************************************************)
(* Virtual dispatch on the class of the object.                            *)
(***************************************************************************)
Caching == {"MappedPipe", "CombinedPipe", "PipeProjection", "PipeArrayMap",
            "PipeArrayFilter", "PipeArrayGroup"}

notify(m, p) ==
    IF m.err THEN m
    ELSE CASE m.h[p].kind = "MappedPipe" -> MappedPipe_notify(m, p)
           [] m.h[p].kind = "CombinedPipe" -> CombinedPipe_notify(m, p)
           [] m.h[p].kind = "PipeProjection" -> PipeProjection_notify(m, p)
           [] m.h[p].kind = "PipeArrayMap" -> PipeArrayMap_notify(m, p)
           [] m.h[p].kind = "PipeArrayFilter" -> PipeArrayFilter_notify(m, p)
           [] m.h[p].kind = "PipeArrayGroup" -> PipeArrayGroup_notify(m, p)
           [] m.h[p].base = "Pipe" -> Pipe_notify(m, p)
           [] OTHER -> PipeBase_notify(m, p)

value(m, p) ==
    IF m.err THEN m
    ELSE IF p \notin 1 .. Len(m.h) THEN Throw(m)
    ELSE CASE m.h[p].kind = "State" -> State_value(m, p)
           [] m.h[p].kind = "MappedPipe" -> MappedPipe_value(m, p)
           [] m.h[p].kind = "CombinedPipe" -> CombinedPipe_value(m, p)
           [] m.h[p].kind = "PipeProjection" -> PipeProjection_value(m, p)
           [] m.h[p].kind = "PipeCombiner" -> PipeCombiner_value(m, p)
           [] m.h[p].kind = "PipeMonitor" -> PipeMonitor_value(m, p)
           [] m.h[p].kind = "PipeArrayMap" -> PipeArrayMap_value(m, p)
           [] m.h[p].kind = "PipeArrayFilter" -> PipeArrayFilter_value(m, p)
           [] m.h[p].kind = "PipeArrayGroup" -> PipeArrayGroup_value(m, p)
           [] OTHER -> Throw(m)

subscribe(m, p, lst) ==
    IF m.err THEN m
    ELSE CASE m.h[p].kind = "MappedPipe" -> MappedPipe_subscribe(m, p, lst)
           [] m.h[p].kind = "CombinedPipe" -> CombinedPipe_subscribe(m, p, lst)
           [] m.h[p].base = "Pipe" -> Pipe_subscribe(m, p, lst)
           [] OTHER -> PipeBase_subscribe(m, p, lst)

unsubscribe(m, p, token) ==
    IF m.err THEN m
    ELSE CASE m.h[p].kind = "MappedPipe" -> MappedPipe_unsubscribe(m, p, token)
           [] m.h[p].kind = "CombinedPipe" -> CombinedPipe_unsubscribe(m, p, token)
           [] m.h[p].base = "Pipe" -> Pipe_unsubscribe(m, p, token)
           [] OTHER -> PipeBase_unsubscribe(m, p, token)

dispose(m, p) ==
    IF m.err THEN m
    ELSE CASE m.h[p].kind = "PipeProjection" -> PipeProjection_dispose(m, p)
           [] m.h[p].kind = "PipeCombiner" -> PipeCombiner_dispose(m, p)
           [] m.h[p].kind = "PipeMonitor" -> PipeMonitor_dispose(m, p)
           [] m.h[p].kind = "PipeArrayMap" -> PipeArrayMap_dispose(m, p)
           [] m.h[p].kind = "PipeArrayFilter" -> PipeArrayFilter_dispose(m, p)
           [] m.h[p].kind = "PipeArrayGroup" -> PipeArrayGroup_dispose(m, p)
           [] m.h[p].base = "Pipe" -> Pipe_dispose(m, p)
           [] OTHER -> PipeBase_dispose(m, p)

(***************************************************************************)
(* The steps of the application.  last names the call that was made.       *)
(***************************************************************************)
Op(op, p, t, v, f) == [op |-> op, p |-> p, t |-> t, v |-> v, f |-> f]

Pipes == 1 .. Len(heap)
Live(p) == ~heap[p].lundef

\* the pipes a pipe is subscribed to, or would subscribe to
Upstream(h, p) ==
    {h[p].parents[i] : i \in DOMAIN h[p].parents}
    \cup {h[p].unsubChildren[i].pipe : i \in DOMAIN h[p].unsubChildren}

\* the functions of the application: src => src.value (one per k), and
\* _ => q.value for a variable q that holds a pipe once it is made
SourceReaders == {Ext(k, "read", 0) : k \in 1 .. NumFns}
PipeReaders(cap) == {Ext(0, "read", q) : q \in 2 .. cap}

\* the lists over the items, without repetition
Lists == {l \in UNION {[1 .. n -> 1 .. NumItems] : n \in 0 .. NumItems} :
            \A i, j \in DOMAIN l : i # j => l[i] # l[j]}

\* the values a State of the model takes: those of the type it was made with
ValsOf(v) ==
    CASE v.t = "int" -> {IntV(n) : n \in 0 .. MaxVal}
      [] v.t = "bool" -> {BoolV(TRUE), BoolV(FALSE)}
      [] v.t = "list" -> {ListV(l) : l \in Lists}
      [] v.t = "ref" -> {RefV(q) : q \in 1 .. NumTargets}
      [] OTHER -> {}

Step(r, op, cap) ==
    /\ Len(r.h) <= cap
    /\ \A p \in 1 .. Len(r.h) : r.h[p].index <= MaxTokens
    /\ heap' = r.h
    /\ log' = r.log
    /\ threw' = r.err
    /\ last' = op

Start(h) ==
    /\ heap = h
    /\ log = <<>>
    /\ threw = FALSE
    /\ last = Op("init", 0, NoToken, Undef, Hole)

Project(cap) ==
    \E parent \in Pipes :
        /\ Live(parent)
        /\ Step(Pipe_project(Machine(heap), parent, "inc"),
                Op("project", Len(heap) + 1, NoToken, Undef, Hole), cap)

CombineWith(cap) ==
    \E d0 \in Pipes, rest \in {<<>>} \cup {<<d>> : d \in Pipes} :
        /\ \A i \in DOMAIN rest : Live(rest[i])
        /\ Live(d0)
        /\ Step(Pipe_combineWith(Machine(heap), d0, rest),
                Op("combineWith", Len(heap) + 1, NoToken, Undef, Hole), cap)

Monitor(cap) ==
    \E parent \in Pipes, sel \in {0} \cup Pipes :
        /\ Live(parent)
        /\ LET r == Pipe_monitor(Machine(heap), parent, <<sel>>)
           IN  /\ ~r.err
               /\ Step(r, Op("monitor", Len(heap) + 1, NoToken, Undef, Hole), cap)

ArrayMap(cap) ==
    \E parent \in Pipes :
        /\ Live(parent)
        /\ LET r == Pipe_map(Machine(heap), parent, "plus10")
           IN  /\ ~r.err
               /\ Step(r, Op("map", Len(heap) + 1, NoToken, Undef, Hole), cap)

Filter(cap) ==
    \E parent \in Pipes :
        /\ Live(parent)
        /\ heap[parent].kind = "State"
        /\ LET r == Pipe_filter(Machine(heap), parent, "field")
           IN  /\ ~r.err
               /\ Step(r, Op("filter", Len(heap) + 1, NoToken, Undef, Hole), cap)

Group(cap) ==
    \E parent \in Pipes :
        /\ Live(parent)
        /\ heap[parent].kind = "State"
        /\ LET r == Pipe_group(Machine(heap), parent, "field")
           IN  /\ ~r.err
               /\ Step(r, Op("group", Len(heap) + 1, NoToken, Undef, Hole), cap)

\* the lists over the items of at most MaxListLen elements, in which an item
\* may occur more than once
ListsRep == UNION {[1 .. n -> 1 .. NumItems] : n \in 0 .. MaxListLen}

\* the values a State takes when its lists may repeat an item
ValsRep(v) == IF v.t = "list" THEN {ListV(l) : l \in ListsRep} ELSE ValsOf(v)

SetList(cap) ==
    \E p \in Pipes :
        /\ heap[p].kind = "State"
        /\ Live(p)
        /\ \E v \in ValsRep(heap[p].value) :
             Step(State_set(Machine(heap), p, v), Op("set", p, NoToken, v, Hole), cap)

SetValue(cap) ==
    \E p \in Pipes :
        /\ heap[p].kind = "State"
        /\ Live(p)
        /\ \E v \in ValsOf(heap[p].value) :
             Step(State_set(Machine(heap), p, v), Op("set", p, NoToken, v, Hole), cap)

\* reading a State changes nothing; reading a caching pipe fills its cache
ReadValue(cap) ==
    \E p \in Pipes :
        /\ Live(p)
        /\ heap[p].kind # "State"
        /\ Step(value(Machine(heap), p), Op("read", p, NoToken, Undef, Hole), cap)

Subscribe(cap, fns, from) ==
    \E p \in Pipes, lst \in fns :
        /\ p >= from
        /\ Live(p)
        /\ LET r == subscribe(Machine(heap), p, lst)
           IN  Step(r, Op("subscribe", p, r.tok, Undef, lst), cap)

\* A token is handed only to the caller of subscribe: the application holds
\* no token of a closure the library installed.  It may pass a token twice,
\* or one that was never issued.
Unsubscribe(cap) ==
    \E p \in Pipes, token \in 0 .. MaxTokens :
        /\ Live(p)
        /\ token + 1 \in DOMAIN heap[p].listeners
              => heap[p].listeners[token + 1].type \in {"ext", "hole"}
        /\ Step(unsubscribe(Machine(heap), p, token),
                Op("unsubscribe", p, token, Undef, Hole), cap)

\* A disposed object is not used again: a pipe is disposed after the pipes
\* made over it.
Dispose(cap) ==
    \E p \in Pipes :
        /\ Live(p)
        /\ \A q \in Pipes : p \in Upstream(heap, q) => ~Live(q)
        /\ Step(dispose(Machine(heap), p), Op("dispose", p, NoToken, Undef, Hole), cap)

(***************************************************************************)
(* One State, of the first or of the second iteration.                     *)
(***************************************************************************)
InitState ==
    \E base \in {"PipeBase", "Pipe"} :
        Start(State_new(Machine(<<>>), base, IntV(0)).h)

NextState ==
    \/ SetValue(1)
    \/ Subscribe(1, SourceReaders, 1)
    \/ Unsubscribe(1)

SpecState == InitState /\ [][NextState]_vars

(***************************************************************************)
(* The first iteration.  Its constructors act on no other pipe, so the     *)
(* program first makes its pipes and then uses them:                       *)
(*   a = new State(0); m = a.map(inc)                                      *)
(*   a = new State(0); d = new CombinedPipe(a)                             *)
(*   a = new State(0); b = new State(0); d = new CombinedPipe(a, b)        *)
(***************************************************************************)
Construct(m, c) ==
    CASE c.k = "State" -> State_new(m, "PipeBase", IntV(0))
      [] c.k = "map" -> MappedPipe_new(m, c.a[1], "inc")
      [] OTHER -> CombinedPipe_new(m, c.a)

RECURSIVE Build(_, _)
Build(m, prog) ==
    IF prog = <<>> THEN m ELSE Build(Construct(m, Head(prog)), Tail(prog))

NewS == [k |-> "State", a |-> <<>>]
NewM(q) == [k |-> "map", a |-> <<q>>]
NewC(a) == [k |-> "combine", a |-> a]

Programs ==
    {<<NewS, NewM(1)>>, <<NewS, NewC(<<1>>)>>, <<NewS, NewS, NewC(<<1, 2>>)>>}

Init == \E prog \in Programs : Start(Build(Machine(<<>>), prog).h)

Next ==
    \/ SetValue(MaxPipes)
    \/ ReadValue(MaxPipes)
    \/ Subscribe(MaxPipes, SourceReaders, 1)
    \/ Unsubscribe(MaxPipes)
    \/ Dispose(MaxPipes)

Spec == Init /\ [][Next]_vars

\* the program  a = new State(0); m = a.map(inc)  alone
InitMapped == Start(Build(Machine(<<>>), <<NewS, NewM(1)>>).h)

SpecMapped == InitMapped /\ [][Next]_vars

(***************************************************************************)
(* The second iteration: one State, of a number or of a list, and up to    *)
(* MaxDerived pipes made over what is there.  A constructor subscribes to  *)
(* its parents, so pipes are made while the program runs.                  *)
(***************************************************************************)
InitPipe ==
    \E v \in {IntV(1), ListV(<<1>>)} : Start(State_new(Machine(<<>>), "Pipe", v).h)

PipeCap == 1 + MaxDerived

NextPipe ==
    \/ Project(PipeCap)
    \/ CombineWith(PipeCap)
    \/ Monitor(PipeCap)
    \/ ArrayMap(PipeCap)
    \/ SetValue(PipeCap)
    \/ ReadValue(PipeCap)
    \/ Subscribe(PipeCap, SourceReaders \cup PipeReaders(PipeCap), 1)
    \/ Unsubscribe(PipeCap)
    \/ Dispose(PipeCap)

SpecPipe == InitPipe /\ [][NextPipe]_vars

(***************************************************************************)
(* The array pipes: NumItems items with one State<boolean> each (at heap   *)
(* addresses 1 .. NumItems), a State holding a list of them, and the       *)
(* PipeArrayFilter made over it.                                           *)
(***************************************************************************)
InitArray ==
    Start([i \in 1 .. NumItems + 1 |->
             IF i <= NumItems
             THEN State_new(Machine(<<>>), "Pipe", BoolV(FALSE)).h[1]
             ELSE State_new(Machine(<<>>), "Pipe", ListV([j \in 1 .. NumItems |-> j])).h[1]])

ArrayCap == NumItems + 1 + MaxArrayPipes

NextArray ==
    \/ Filter(ArrayCap)
    \/ SetValue(ArrayCap)
    \/ ReadValue(ArrayCap)
    \/ Subscribe(ArrayCap, SourceReaders, NumItems + 2)
    \/ Unsubscribe(ArrayCap)
    \/ Dispose(ArrayCap)

SpecArray == InitArray /\ [][NextArray]_vars

\* the same items and list, under a PipeArrayFilter or a PipeArrayGroup, with
\* lists that may name an item twice
NextTracked ==
    \/ Filter(ArrayCap)
    \/ Group(ArrayCap)
    \/ SetList(ArrayCap)
    \/ ReadValue(ArrayCap)
    \/ Dispose(ArrayCap)

SpecTracked == InitArray /\ [][NextTracked]_vars

(***************************************************************************)
(* The collection operations called on any State or PipeProjection, array  *)
(* or not: the items and the list of InitArray, projections (inc, whose    *)
(* result is a number) and the array pipes made by the calls that succeed. *)
(* last.p names the receiver of the call.                                  *)
(***************************************************************************)
CollectionCap == NumItems + 1 + MaxDerived + MaxArrayPipes

Receivers == {p \in Pipes : Live(p) /\ heap[p].kind \in {"State", "PipeProjection"}}

CallAsArray(cap) ==
    \E p \in Receivers :
        Step(Pipe_asArray(Machine(heap), p), Op("asArray", p, NoToken, Undef, Hole), cap)

CallGroup(cap) ==
    \E p \in Receivers :
        Step(Pipe_group(Machine(heap), p, "field"), Op("group", p, NoToken, Undef, Hole), cap)

CallMap(cap) ==
    \E p \in Receivers :
        Step(Pipe_map(Machine(heap), p, "plus10"), Op("map", p, NoToken, Undef, Hole), cap)

CallFilter(cap) ==
    \E p \in Receivers :
        Step(Pipe_filter(Machine(heap), p, "field"), Op("filter", p, NoToken, Undef, Hole), cap)

NextCollection ==
    \/ Project(CollectionCap)
    \/ CallAsArray(CollectionCap)
    \/ CallGroup(CollectionCap)
    \/ CallMap(CollectionCap)
    \/ CallFilter(CollectionCap)
    \/ SetValue(CollectionCap)
    \/ ReadValue(CollectionCap)
    \/ Subscribe(CollectionCap, SourceReaders, NumItems + 2)

SpecCollection == InitArray /\ [][NextCollection]_vars

(***************************************************************************)
(* One State, of the first or of the second iteration, with listeners that *)
(* unsubscribe a token of their source when they are called:               *)
(*   src => src.unsubscribe(t)                                             *)
(***************************************************************************)
Unsubscribers == {Ext(0, "unsub", t) : t \in 0 .. MaxTokens - 1}

NextReentrant ==
    \/ SetValue(1)
    \/ Subscribe(1, SourceReaders \cup Unsubscribers, 1)

SpecReentrant == InitState /\ [][NextReentrant]_vars

\* the same, where the application disposes the pipes it derived and keeps
\* the States of the items and of the list alive
DisposeDerived(cap) ==
    \E p \in Pipes :
        /\ Live(p)
        /\ heap[p].kind # "State"
        /\ Step(dispose(Machine(heap), p), Op("dispose", p, NoToken, Undef, Hole), cap)

NextDetach ==
    \/ Filter(ArrayCap)
    \/ Group(ArrayCap)
    \/ SetList(ArrayCap)
    \/ ReadValue(ArrayCap)
    \/ DisposeDerived(ArrayCap)

SpecDetach == InitArray /\ [][NextDetach]_vars

(***************************************************************************)
(* A PipeArrayGroup over NumMembers items with one State<boolean> key each  *)
(* (at heap addresses 1 .. NumMembers) and a State holding a list of them,  *)
(* in any order and with repetitions.                                      *)
(***************************************************************************)
InitGroup ==
    Start([i \in 1 .. NumMembers + 1 |->
             IF i <= NumMembers
             THEN State_new(Machine(<<>>), "Pipe", BoolV(FALSE)).h[1]
             ELSE State_new(Machine(<<>>), "Pipe", ListV([j \in 1 .. NumMembers |-> j])).h[1]])

GroupCap == NumMembers + 1 + MaxArrayPipes

MemberLists == UNION {[1 .. n -> 1 .. NumMembers] : n \in 0 .. MaxListLen}

ValsMembers(v) == IF v.t = "list" THEN {ListV(l) : l \in MemberLists} ELSE ValsOf(v)

SetMembers(cap) ==
    \E p \in Pipes :
        /\ heap[p].kind = "State"
        /\ Live(p)
        /\ \E v \in ValsMembers(heap[p].value) :
             Step(State_set(Machine(heap), p, v), Op("set", p, NoToken, v, Hole), cap)

NextGroup ==
    \/ Group(GroupCap)
    \/ SetMembers(GroupCap)
    \/ ReadValue(GroupCap)

SpecGroup == InitGroup /\ [][NextGroup]_vars

\* the same State, with listeners that also subscribe a listener to their
\* source when they are called:  src => src.subscribe(f)
Subscribers == {Ext(0, "sub", k) : k \in 1 .. NumFns}

NextSnapshot ==
    \/ SetValue(1)
    \/ Subscribe(1, SourceReaders \cup Unsubscribers \cup Subscribers, 1)

SpecSnapshot == InitState /\ [][NextSnapshot]_vars

\* the same State, with a listener that assigns to its source when it is
\* called:  src => src.value = MaxVal
Setters == {Ext(0, "set", MaxVal)}

NextNested ==
    \/ SetValue(1)
    \/ Subscribe(1, SourceReaders \cup Setters, 1)
    \/ Unsubscribe(1)

SpecNested == InitState /\ [][NextNested]_vars

(***************************************************************************)
(* A monitor whose selector follows the parent's value: NumTargets States  *)
(* (at heap addresses 1 .. NumTargets), a State a whose value is one of    *)
(* them, and m = a.monitor(x => x).                                        *)
(***************************************************************************)
InitMonitor ==
    Start([i \in 1 .. NumTargets + 1 |->
             IF i <= NumTargets
             THEN State_new(Machine(<<>>), "Pipe", IntV(0)).h[1]
             ELSE State_new(Machine(<<>>), "Pipe", RefV(1)).h[1]])

MonitorCap == NumTargets + 2

MonitorSelected(cap) ==
    \E parent \in Pipes :
        /\ Live(parent)
        /\ heap[parent].value.t = "ref"
        /\ Step(Pipe_monitor(Machine(heap), parent, <<0>>),
                Op("monitor", Len(heap) + 1, NoToken, Undef, Hole), cap)

NextMonitor ==
    \/ MonitorSelected(MonitorCap)
    \/ SetValue(MonitorCap)
    \/ Subscribe(MonitorCap, SourceReaders, NumTargets + 2)
    \/ Unsubscribe(MonitorCap)
    \/ Dispose(MonitorCap)

SpecMonitor == InitMonitor /\ [][NextMonitor]_vars

\* the same States under a monitor with up to MaxSelectors selectors, each
\* either x => x or _ => q for one of the States q
SelectorLists == UNION {[1 .. n -> 0 .. NumTargets] : n \in 1 .. MaxSelectors}

MonitorMany(cap) ==
    \E parent \in Pipes, sels \in SelectorLists :
        /\ Live(parent)
        /\ heap[parent].value.t = "ref"
        /\ Step(Pipe_monitor(Machine(heap), parent, sels),
                Op("monitor", Len(heap) + 1, NoToken, Undef, Hole), cap)

NextSelectors ==
    \/ MonitorMany(MonitorCap)
    \/ SetValue(MonitorCap)
    \/ Subscribe(MonitorCap, SourceReaders, NumTargets + 2)
    \/ Unsubscribe(MonitorCap)

SpecSelectors == InitMonitor /\ [][NextSelectors]_vars

(***************************************************************************)
(* The diamond, in the first and in the second iteration:                  *)
(*   a = new State(0); p1 = a.map(inc); p2 = a.map(inc);                   *)
(*   d = p1.combineWith(p2)                                                *)
(*   a = new State(0); p1 = a.project(inc); p2 = a.project(inc);           *)
(*   d = p1.combineWith(p2)                                                *)
(***************************************************************************)
DiamondCap == MaxPipes + 1

\* the combiner is the pipe made last
D(h) == Len(h)

InitDiamond ==
    \/ Start(Build(Machine(<<>>), <<NewS, NewM(1), NewM(1), NewC(<<2, 3>>)>>).h)
    \/ LET a == State_new(Machine(<<>>), "Pipe", IntV(0))
           p1 == Pipe_project(a, 1, "inc")
           p2 == Pipe_project(p1, 1, "inc")
       IN  Start(Pipe_combineWith(p2, 2, <<3>>).h)

NextDiamond ==
    \/ SetValue(DiamondCap)
    \/ ReadValue(DiamondCap)
    \/ Subscribe(DiamondCap, SourceReaders, 1)
    \/ Unsubscribe(DiamondCap)

SpecDiamond == InitDiamond /\ [][NextDiamond]_vars

(***************************************************************************)
(* Properties.                                                             *)
(***************************************************************************)
\* the calls, in the log l of one step, of the listener in slot tok of src
CallsOf(l, src, tok) == {i \in DOMAIN l : l[i].src = src /\ l[i].tok = tok}

\* the slots of a table that hold a function of the application
ExtSlots(ls) == {i \in DOMAIN ls : ls[i].type = "ext"}
HasHole(ls) == \E i \in DOMAIN ls : ls[i] = Hole

\* C1: on a State of either iteration, an assignment of a different value
\* calls every listener then subscribed exactly once before it returns, and
\* an assignment of the value the State holds calls no listener.
C1_SetCallsEachListenerOnce ==
    [][last'.op = "set" =>
         IF last'.v # heap[last'.p].value
         THEN \A i \in ExtSlots(heap[last'.p].listeners) :
                 Cardinality(CallsOf(log', last'.p, i - 1)) = 1
         ELSE log' = <<>>]_vars

\* C2: oldValue is the value the State held before the last assignment that
\* changed it (the constructor's value if none did), value is the value last
\* assigned, and assigning the value held changes neither.
C2_OldValueIsPreviousValue ==
    /\ \A p \in Pipes : heap[p].kind = "State" => heap[p].oldValue = heap[p].value
    /\ [][last'.op = "set" =>
            /\ heap'[last'.p].value = last'.v
            /\ heap'[last'.p].oldValue =
                  IF last'.v # heap[last'.p].value
                  THEN heap[last'.p].value ELSE heap[last'.p].oldValue]_vars

\* C2 witness: the State was changed twice, 0 -> 1 -> 0
C2_Witness ==
    /\ last.op = "set"
    /\ heap[last.p].value = IntV(0)
    /\ heap[last.p].oldValue = IntV(1)

\* C3: once fn was subscribed and unsubscribed, the table holds no entry for
\* it (the slot of the token is empty), and every later change completes
\* without calling fn.
C3_UnsubscribedIsNeverCalled ==
    [][/\ (last'.op = "unsubscribe" /\ last'.t + 1 \in DOMAIN heap'[last'.p].listeners)
            => heap'[last'.p].listeners[last'.t + 1] = Hole
       /\ (last'.op = "set" /\ HasHole(heap[last'.p].listeners))
            => \A fn \in SourceReaders :
                  ~Includes(heap[last'.p].listeners, fn)
                     => /\ ~threw'
                        /\ \A i \in DOMAIN log' : log'[i].fn # fn.ref]_vars

\* C4: unsubscribe with a token already unsubscribed, or never issued,
\* does not throw and leaves every listener table as it was.
C4_UnknownTokenIsNoOp ==
    [][(/\ last'.op = "unsubscribe"
        /\ \/ last'.t + 1 \notin DOMAIN heap[last'.p].listeners
           \/ heap[last'.p].listeners[last'.t + 1] = Hole)
         => /\ ~threw'
            /\ \A q \in Pipes : heap'[q].listeners = heap[q].listeners]_vars

\* C6: whenever a call has returned, reading the value of a MappedPipe
\* yields its projection applied to the current value of its parent.
C6_MappedValueIsCurrent ==
    \A p \in Pipes :
        (heap[p].kind = "MappedPipe" /\ Live(p) /\ Live(heap[p].parents[1]))
            => value(Machine(heap), p).ret =
                  Apply(heap[p].fn, heap[heap[p].parents[1]].value)

\* the slots of the table of d that hold a closure installed by p
ClosureSlots(d, p) ==
    {i \in DOMAIN heap[d].listeners : heap[d].listeners[i] = NotifyClosure(p)}

\* C7: the parent of a MappedPipe M holds one closure of M per live
\* listener-subscription of M, in the slot recorded for the token of that
\* subscription; after unsubscribe(t) the closure made for t is gone, and
\* after dispose none remains.
C7_MappedParentSubscriptions ==
    \A p \in Pipes :
        heap[p].kind = "MappedPipe" =>
            LET a == heap[p].parents[1]
            IN  /\ Cardinality(ClosureSlots(a, p)) =
                      Cardinality(ExtSlots(heap[p].listeners))
                /\ \A t \in DOMAIN heap[p].tokens :
                      (heap[p].tokens[t] + 1 \in ClosureSlots(a, p))
                         <=> (t + 1 \in ExtSlots(heap[p].listeners))
                /\ ~Live(p) => ClosureSlots(a, p) = {}

\* C7 witness: M.unsubscribe(t) has removed one of two subscriptions of M
C7_Witness ==
    /\ last.op = "unsubscribe"
    /\ heap[last.p].kind = "MappedPipe"
    /\ last.t + 1 \in DOMAIN heap[last.p].listeners
    /\ heap[last.p].listeners[last.t + 1] = Hole
    /\ ExtSlots(heap[last.p].listeners) # {}

\* C8: every dependency of a CombinedPipe D holds one closure of D per live
\* listener-subscription of D (per occurrence among the dependencies), and
\* none once D is disposed.
C8_CombinedDependencySubscriptions ==
    \A p \in Pipes :
        heap[p].kind = "CombinedPipe" =>
            \A i \in DOMAIN heap[p].parents :
                Cardinality(ClosureSlots(heap[p].parents[i], p)) =
                    Cardinality({j \in DOMAIN heap[p].parents :
                                    heap[p].parents[j] = heap[p].parents[i]})
                    * Cardinality(ExtSlots(heap[p].listeners))

\* C5: when the State under a PipeProjection whose value is cached changes,
\* every read of the projection made by a listener called during that
\* notification returns the projection of the new value.
C5_ProjectionReadIsNeverStale ==
    [][(last'.op = "set" /\ last'.v # heap[last'.p].value) =>
         \A i \in DOMAIN log' :
            LET q == log'[i].read
            IN  (/\ q \in Pipes
                 /\ heap[q].kind = "PipeProjection"
                 /\ heap[q].cached
                 /\ ~heap[q].pundef
                 /\ heap[q].parents[1] = last'.p)
                   => log'[i].val = Apply(heap[q].fn, last'.v)]_vars

\* a derived pipe of the second iteration whose dispose() has returned
Disposed(h, o) ==
    /\ h[o].kind \in {"PipeProjection", "PipeArrayMap", "PipeCombiner", "PipeMonitor"}
    /\ h[o].uundef

\* C9: once a PipeProjection, PipeArrayMap, PipeCombiner or PipeMonitor is
\* disposed, no listener table holds a closure it installed, and no later
\* step calls a listener from it or changes it (its cache included).
C9_DisposedIsDetached ==
    [][\A o \in DOMAIN heap' :
          Disposed(heap', o) =>
             /\ \A q \in DOMAIN heap' : \A i \in DOMAIN heap'[q].listeners :
                   heap'[q].listeners[i] # NotifyClosure(o)
             /\ (o \in DOMAIN heap /\ Disposed(heap, o)) =>
                   /\ heap'[o] = heap[o]
                   /\ \A i \in DOMAIN log' : log'[i].src # o]_vars

\* C9 witness: a State was assigned a new value, and ran its notification,
\* after the PipeMonitor made over it was disposed
C9_Witness ==
    /\ last.op = "set"
    /\ heap[last.p].value = last.v
    /\ heap[last.p].oldValue # last.v
    /\ threw
    /\ \E o \in Pipes :
          /\ heap[o].kind = "PipeMonitor"
          /\ Disposed(heap, o)
          /\ last.p \in Upstream(heap, o)

\* the elements of the parent's list whose predicate State holds true
FilterOf(h, f) ==
    ListV(SelectSeq(h[h[f].parents[1]].value.l,
                    LAMBDA x : Truthy(h[ItemPipe(h[f].fn, x)].value)))

\* C10: when the predicate State of an element of the list changes, every
\* listener of the PipeArrayFilter is called exactly once and reads the list
\* filtered by the new value, and so does a read after the step.
C10_PredicateChangeNotifiesFilter ==
    [][(last'.op = "set" /\ last'.p <= NumItems /\ last'.v # heap[last'.p].value) =>
         \A f \in Pipes :
            (/\ heap[f].kind = "PipeArrayFilter"
             /\ Live(f)
             /\ last'.p \in Elems(heap[heap[f].parents[1]].value.l))
               => /\ \A i \in ExtSlots(heap[f].listeners) :
                        /\ Cardinality(CallsOf(log', f, i - 1)) = 1
                        /\ \A j \in CallsOf(log', f, i - 1) :
                              log'[j].val = FilterOf(heap', f)
                  /\ value(Machine(heap'), f).ret = FilterOf(heap', f)]_vars

\* C11: once an element was removed from the list, a change of its predicate
\* State completes and calls no listener of the PipeArrayFilter.
C11_RemovedElementIsDetached ==
    [][(last'.op = "set" /\ last'.p <= NumItems /\ last'.v # heap[last'.p].value) =>
         \A f \in Pipes :
            (/\ heap[f].kind = "PipeArrayFilter"
             /\ Live(f)
             /\ heap[last'.p].index > 0
             /\ last'.p \notin Elems(heap[heap[f].parents[1]].value.l))
               => /\ ~threw'
                  /\ \A i \in DOMAIN log' : log'[i].src # f]_vars

\* the positions of a sequence of records whose item is x
TrackedFor(bs, x) == {i \in DOMAIN bs : bs[i].item = x}

\* C12: a PipeArrayFilter or PipeArrayGroup tracks one subscription per
\* position of its parent's current list: for every item, as many tracked
\* subscriptions as the list has occurrences of the item.
C12_TrackedMatchesList ==
    \A f \in Pipes :
        (heap[f].kind \in {"PipeArrayFilter", "PipeArrayGroup"} /\ Live(f)) =>
            \A x \in 1 .. NumItems :
                Cardinality(TrackedFor(heap[f].unsubChildren, x)) =
                    Cardinality({j \in DOMAIN heap[heap[f].parents[1]].value.l :
                                    heap[heap[f].parents[1]].value.l[j] = x})

\* C13: for a PipeMonitor M over a parent whose value the selector follows,
\* M is subscribed to the observable selected from the parent's current
\* value and to no other: an assignment that changes the selected observable
\* calls every listener of M, and one that changes another observable calls
\* none.
C13_MonitorFollowsSelection ==
    [][(/\ last'.op = "set" /\ last'.p <= NumTargets
        /\ last'.v # heap[last'.p].value) =>
         \A M \in Pipes :
            (/\ heap[M].kind = "PipeMonitor" /\ Live(M) /\ heap[M].sels = <<0>>
             /\ ExtSlots(heap[M].listeners) # {}
             /\ \A q \in Pipes : ~HasHole(heap[q].listeners))
               => IF Select(0, heap[heap[M].parents[1]].value) = last'.p
                  THEN \A i \in ExtSlots(heap[M].listeners) :
                          CallsOf(log', M, i - 1) # {}
                  ELSE \A i \in DOMAIN log' : log'[i].src # M]_vars

\* the application has one listener, on d, and no table has a hole
OneListenerOnD(h) ==
    /\ h[D(h)].kind \in {"CombinedPipe", "PipeCombiner"}
    /\ Cardinality(ExtSlots(h[D(h)].listeners)) = 1
    /\ \A q \in 1 .. D(h) - 1 : ExtSlots(h[q].listeners) = {}
    /\ \A q \in 1 .. D(h) : ~HasHole(h[q].listeners)

\* C14: in the diamond (a State, two projections of it, a combiner over the
\* two) with one listener on the combiner, an assignment that changes the
\* State's value calls that listener exactly twice, with the combiner as
\* source, and does not throw; in both iterations.
C14_DiamondCallsTwice ==
    [][(/\ last'.op = "set" /\ last'.v # heap[last'.p].value
        /\ OneListenerOnD(heap)) =>
          /\ ~threw'
          /\ Len(log') = 2
          /\ \A i \in DOMAIN log' :
                /\ log'[i].src = D(heap)
                /\ log'[i].tok + 1 \in ExtSlots(heap[D(heap)].listeners)]_vars

\* an assignment changed the State of the first-iteration diamond and the
\* one listener on the combiner was called twice
C14_Witness ==
    /\ last.op = "set" /\ ~threw
    /\ heap[1].value = last.v /\ heap[1].oldValue # last.v
    /\ heap[D(heap)].kind = "CombinedPipe"
    /\ OneListenerOnD(heap)
    /\ Len(log) = 2 /\ \A i \in DOMAIN log : log[i].src = D(heap)

\* C15: on a Pipe-based observable, subscribe throws when the listener is in
\* the table and then changes nothing; when it is not (never subscribed, or
\* its token was unsubscribed) subscribe does not throw, returns the token
\* counter, which no slot of the table has, appends the listener and
\* advances the counter.
C15_SubscribeRejectsRegistered ==
    [][(last'.op = "subscribe" /\ heap[last'.p].base = "Pipe") =>
         IF \E i \in DOMAIN heap[last'.p].listeners :
               heap[last'.p].listeners[i] = last'.f
         THEN threw' /\ heap' = heap
         ELSE /\ ~threw'
              /\ last'.t = heap[last'.p].index
              /\ last'.t + 1 \notin DOMAIN heap[last'.p].listeners
              /\ heap'[last'.p].index = heap[last'.p].index + 1
              /\ heap'[last'.p].listeners = Append(heap[last'.p].listeners, last'.f)
              /\ \A q \in Pipes \ {last'.p} : heap'[q] = heap[q]]_vars

\* a listener was subscribed again after its token was unsubscribed: its old
\* slot is a hole and it holds a later token
C15_Witness ==
    /\ last.op = "subscribe" /\ ~threw
    /\ heap[last.p].base = "Pipe"
    /\ last.t > 0
    /\ heap[last.p].listeners[last.t + 1] = last.f
    /\ \A i \in 1 .. last.t : heap[last.p].listeners[i] = Hole

CollectionOps == {"asArray", "group", "map", "filter"}

\* the value the receiver of the last call had when it was called
ReceiverValue == value(Machine(heap), last'.p).ret

\* an object but for what reading its value memoizes
Unmemoized(o) == [o EXCEPT !.cached = FALSE, !.cache = Undef]

\* C16 as stated: map, filter, group or asArray called on a pipe whose value
\* is not an array throws, makes no object, adds no listener, and leaves the
\* state of every pipe unchanged.
C16_FailedCallChangesNothing ==
    [][(last'.op \in CollectionOps /\ ~IsArray(ReceiverValue)) =>
          threw' /\ heap' = heap]_vars

\* C16 amended: map, filter, group or asArray called on a pipe whose value
\* is not an array throws, makes no object, and leaves every listener table,
\* token counter, value and subscription of every pipe unchanged; the read
\* of the receiver's value may fill the empty cache of the receiver and of
\* the pipes it is derived from, with their values.
C16_FailedCallOnlyReads ==
    [][(last'.op \in CollectionOps /\ ~IsArray(ReceiverValue)) =>
          /\ threw'
          /\ Len(heap') = Len(heap)
          /\ \A q \in Pipes :
                /\ Unmemoized(heap'[q]) = Unmemoized(heap[q])
                /\ heap'[q] # heap[q] =>
                      /\ ~heap[q].cached
                      /\ heap'[q].cached
                      /\ heap'[q].cache = value(Machine(heap), q).ret]_vars

\* filter was called on a projection whose value is a number and which has a
\* listener: the call threw
C16_Witness ==
    /\ last.op = "filter" /\ threw
    /\ heap[last.p].kind = "PipeProjection"
    /\ heap[last.p].cached /\ ~IsArray(heap[last.p].cache)
    /\ ExtSlots(heap[last.p].listeners) # {}

\* C17: a notification (made by an assignment that changes a State's value,
\* after any subscribe and unsubscribe calls) completes and calls exactly
\* the listeners then in the table, each once, in ascending order of their
\* tokens; the tokens that were unsubscribed are skipped.
C17_NotifyInTokenOrder ==
    [][(last'.op = "set" /\ last'.v # heap[last'.p].value) =>
          /\ ~threw'
          /\ Len(log') = Cardinality(ExtSlots(heap[last'.p].listeners))
          /\ \A i \in DOMAIN log' :
                /\ log'[i].src = last'.p
                /\ log'[i].tok + 1 \in ExtSlots(heap[last'.p].listeners)
                /\ log'[i].fn = heap[last'.p].listeners[log'[i].tok + 1].ref
          /\ \A i, j \in DOMAIN log' : i < j => log'[i].tok < log'[j].tok]_vars

\* C18: when a notification starts on a table without holes and a listener
\* it calls unsubscribes a token of the same observable (its own, an earlier
\* or a later one), the notification completes without error, every
\* listener still in the table afterwards was called exactly once, and no
\* listener was called twice.
C18_UnsubscribeDuringNotify ==
    [][(/\ last'.op = "set" /\ last'.v # heap[last'.p].value
        /\ ~HasHole(heap[last'.p].listeners)
        /\ \E i \in DOMAIN heap[last'.p].listeners :
              heap[last'.p].listeners[i] \in Unsubscribers) =>
          /\ ~threw'
          /\ \A i \in ExtSlots(heap'[last'.p].listeners) :
                Cardinality(CallsOf(log', last'.p, i - 1)) = 1
          /\ \A i \in ExtSlots(heap[last'.p].listeners) :
                Cardinality(CallsOf(log', last'.p, i - 1)) <= 1]_vars

\* C19: a successful subscribe returns the observable's token counter and
\* leaves the counter above it; no step lowers a counter, so the tokens an
\* observable hands out are strictly increasing and pairwise distinct.  The
\* token is one no slot of the table has; a slot never passes from one
\* listener to another and an unsubscribed slot is never filled again.
C19_TokensNeverReused ==
    [][/\ (last'.op = "subscribe" /\ ~threw') =>
             /\ last'.t = heap[last'.p].index
             /\ heap'[last'.p].index > last'.t
             /\ last'.t + 1 \notin DOMAIN heap[last'.p].listeners
             /\ heap'[last'.p].listeners[last'.t + 1] = last'.f
       /\ \A q \in Pipes :
             /\ heap'[q].index >= heap[q].index
             /\ Len(heap'[q].listeners) <= heap'[q].index
             /\ \A i \in DOMAIN heap[q].listeners :
                   heap'[q].listeners[i] \in {heap[q].listeners[i], Hole}]_vars

\* a first-iteration State handed out a further token after one of its
\* tokens was unsubscribed
C19_Witness ==
    /\ last.op = "subscribe" /\ ~threw
    /\ heap[last.p].base = "PipeBase"
    /\ last.t > 0 /\ last.t = heap[last.p].index - 1
    /\ HasHole(heap[last.p].listeners)
    /\ heap[last.p].listeners[last.t + 1] = last.f

\* the slots of a table that hold a listener
LiveSlots(ls) == {i \in DOMAIN ls : ls[i] # Hole}

\* C20: the parent of a live PipeProjection P holds as many closures of P as
\* P has listeners subscribed: one per listener, none when P has none.
C20_OneParentSubscriptionPerListener ==
    \A P \in Pipes :
        (heap[P].kind = "PipeProjection" /\ Live(P)) =>
            Cardinality(ClosureSlots(heap[P].parents[1], P)) =
                Cardinality(LiveSlots(heap[P].listeners))

\* C21: whenever no call is in progress, a read of a live PipeArrayFilter
\* over a State returns the elements of the State's current list whose
\* predicate State currently holds true, in the order of the list.
C21_FilterValueIsCurrent ==
    \A f \in Pipes :
        (heap[f].kind = "PipeArrayFilter" /\ Live(f)) =>
            /\ ~value(Machine(heap), f).err
            /\ value(Machine(heap), f).ret = FilterOf(heap, f)

\* the key the key State of an item currently holds
KeyOf(h, g, x) == h[ItemPipe(h[g].fn, x)].value.n

\* the pairs of the parent's current list: one per key, in the order in
\* which the keys first occur in the list, each with the elements of the
\* list that have the key, in the order of the list
GroupsOf(h, g) ==
    LET l == h[h[g].parents[1]].value.l
        firsts == SelectSeq([i \in DOMAIN l |-> i],
                    LAMBDA i : \A j \in 1 .. i - 1 : KeyOf(h, g, l[j]) # KeyOf(h, g, l[i]))
    IN  GroupsV(Entries([k \in DOMAIN firsts |->
            [key |-> KeyOf(h, g, l[firsts[k]]),
             items |-> SelectSeq(l, LAMBDA x : KeyOf(h, g, x) = KeyOf(h, g, l[firsts[k]]))]]))

\* C22: a read of a live PipeArrayGroup returns one (key, members) pair per
\* key that the key States of the parent's current list hold, in the order
\* of first occurrence of the keys, the members of a pair being the elements
\* of the list that currently have the key, in the order of the list.
C22_GroupValueIsCurrent ==
    \A g \in Pipes :
        (heap[g].kind = "PipeArrayGroup" /\ Live(g)) =>
            /\ ~value(Machine(heap), g).err
            /\ value(Machine(heap), g).ret = GroupsOf(heap, g)

\* the listeners a PipeArrayFilter or PipeArrayGroup installs
InstalledBy(f) == {NotifyClosure(f), ResubClosure(f)}

\* C23: once a PipeArrayFilter or PipeArrayGroup is disposed, no listener
\* table (of its parent, or of the predicate or key State of any element
\* that is or was in the list) holds a listener it installed.
C23_DisposedArrayPipeIsDetached ==
    \A f \in Pipes :
        (heap[f].kind \in {"PipeArrayFilter", "PipeArrayGroup"} /\ heap[f].uundef) =>
            \A q \in Pipes : \A i \in DOMAIN heap[q].listeners :
                heap[q].listeners[i] \notin InstalledBy(f)

\* a PipeArrayFilter was disposed after its element left the list and came
\* back: both slots it held in the predicate State's table are empty
C23_Witness ==
    /\ last.op = "dispose" /\ ~threw
    /\ heap[last.p].kind = "PipeArrayFilter" /\ heap[last.p].uundef
    /\ heap[1].listeners = <<Hole, Hole>>
    /\ 1 \in Elems(heap[heap[last.p].parents[1]].value.l)

\* the selectors of the monitor M that select the observable x from the
\* current value of M's parent
SelectorsOf(M, x) ==
    {k \in DOMAIN heap[M].sels :
        Select(heap[M].sels[k], heap[heap[M].parents[1]].value) = x}

\* the monitor M is subscribed to what its selectors select from the current
\* value of its parent, and no table has a hole
AsConstructed(M) ==
    /\ heap[M].kind = "PipeMonitor" /\ Live(M)
    /\ \A k \in DOMAIN heap[M].sels :
          heap[M].unsubChildren[k].pipe =
              Select(heap[M].sels[k], heap[heap[M].parents[1]].value)
    /\ \A q \in Pipes : ~HasHole(heap[q].listeners)

C25_NotifyUsesSnapshot ==
    [][(/\ last'.op = "set" /\ last'.v # heap[last'.p].value
        /\ ~HasHole(heap[last'.p].listeners)
        /\ \A i \in DOMAIN heap[last'.p].listeners :
              heap[last'.p].listeners[i] \in Subscribers =>
                  ~Includes(heap[last'.p].listeners,
                            Ext(heap[last'.p].listeners[i].arg, "read", 0))) =>
          /\ ~threw'
          /\ \A i \in DOMAIN heap[last'.p].listeners :
                Cardinality(CallsOf(log', last'.p, i - 1)) = 1
          /\ \A j \in DOMAIN log' :
                log'[j].tok + 1 \in DOMAIN heap[last'.p].listeners]_vars

\* the tokens a .. b in ascending order
Upto(a, b) == [j \in 1 .. (b - a + 1) |-> a + j - 1]

\* the slot of the first listener of a table that assigns to its source
FirstSetter(ls) ==
    CHOOSE k \in DOMAIN ls :
        ls[k] \in Setters /\ \A j \in 1 .. k - 1 : ls[j] \notin Setters

CachingKinds ==
    {"MappedPipe", "CombinedPipe", "PipeProjection",
     "PipeArrayMap", "PipeArrayFilter", "PipeArrayGroup"}

\* the heap with every cache dropped
Uncached(h) ==
    [q \in DOMAIN h |->
        IF h[q].kind \in CachingKinds THEN [h[q] EXCEPT !.cached = FALSE] ELSE h[q]]

\* C27: whenever a listener of a caching derived observable is called by
\* that observable and reads its value, it gets the value computed from the
\* current values of the sources, never the value cached before the
\* notification.
C27_OwnListenerReadsFresh ==
    [][\A i \in DOMAIN log' :
          (/\ log'[i].read = log'[i].src
           /\ log'[i].src \in DOMAIN heap'
           /\ heap'[log'[i].src].kind \in CachingKinds) =>
              log'[i].val = value(Machine(Uncached(heap')), log'[i].src).ret]_vars

\* a listener of a projection read the projection's value during the
\* notification caused by an assignment to the source and got the value
\* computed from the new value, which differs from the one computed from
\* the old value
C27_Witness ==
    /\ last.op = "set" /\ ~threw
    /\ \E i \in DOMAIN log :
          /\ log[i].read = log[i].src
          /\ log[i].src \in DOMAIN heap
          /\ heap[log[i].src].kind = "PipeProjection"
          /\ heap[log[i].src].parents[1] = last.p
          /\ log[i].val = Apply(heap[log[i].src].fn, last.v)
          /\ log[i].val # Apply(heap[log[i].src].fn, heap[last.p].oldValue)

\* C28: unsubscribe(token) and dispose() on a CombinedPipe leave every
\* listener that the CombinedPipe did not install registered, in its slot,
\* on each dependency.
C28_CombinedRemovesOnlyOwn ==
    [][(/\ last'.op \in {"unsubscribe", "dispose"}
        /\ heap[last'.p].kind = "CombinedPipe") =>
          \A j \in DOMAIN heap[last'.p].parents :
             LET d == heap[last'.p].parents[j]
             IN  \A i \in DOMAIN heap[d].listeners :
                    heap[d].listeners[i] \notin InstalledBy(last'.p) \cup {Hole} =>
                       /\ ~heap'[d].lundef
                       /\ heap'[d].listeners[i] = heap[d].listeners[i]]_vars

\* the disposed projections that were constructed over the State a
DisposedOn(h, a) ==
    {o \in DOMAIN h :
        Disposed(h, o) /\ h[o].kind = "PipeProjection" /\ h[o].parents[1] = a}

\* C29: when the only listeners ever removed from a State are the closures
\* of projections that have been disposed, a value-changing assignment to
\* the State completes without error and calls each listener still
\* subscribed on it exactly once.
C29_DisposeKeepsParentDelivery ==
    [][(/\ last'.op = "set" /\ last'.v # heap[last'.p].value
        /\ DisposedOn(heap, last'.p) # {}
        /\ Cardinality({i \in DOMAIN heap[last'.p].listeners :
                           heap[last'.p].listeners[i] = Hole})
              = Cardinality(DisposedOn(heap, last'.p))) =>
          /\ ~threw'
          /\ \A i \in ExtSlots(heap[last'.p].listeners) :
                Cardinality(CallsOf(log', last'.p, i - 1)) = 1]_vars

\* the live MappedPipes over the State a
MappedOver(h, a) ==
    {q \in DOMAIN h :
        /\ h[q].kind = "MappedPipe" /\ ~h[q].lundef
        /\ h[q].parents[1] = a /\ ExtSlots(h[q].listeners) # {}}

\* C30: a value-changing assignment to a State completes and calls each of
\* the k listeners of a live MappedPipe over it exactly k times, k * k calls
\* of the MappedPipe's listeners in total.
C30_MappedCallsKTimes ==
    [][(last'.op = "set" /\ last'.v # heap[last'.p].value) =>
          \A q \in MappedOver(heap, last'.p) :
             LET k == Cardinality(ExtSlots(heap[q].listeners))
             IN  /\ ~threw'
                 /\ \A i \in ExtSlots(heap[q].listeners) :
                       Cardinality(CallsOf(log', q, i - 1)) = k
                 /\ Cardinality({j \in DOMAIN log' : log'[j].src = q}) = k * k]_vars

\* a MappedPipe with two listeners: the assignment to its parent called
\* each of them twice
C30_Witness ==
    /\ last.op = "set" /\ ~threw
    /\ \E q \in MappedOver(heap, last.p) :
          /\ Cardinality(ExtSlots(heap[q].listeners)) = 2
          /\ Cardinality({j \in DOMAIN log : log[j].src = q}) = 4
          /\ \A i \in ExtSlots(heap[q].listeners) :
                Cardinality(CallsOf(log, q, i - 1)) = 2

====
